---- MODULE Spec2Model ----
\* Model of cepik_client.py: a client for the moj.gov.pl vehicle-history service.
\* Five module-level functions, each sending one HTTP request through the global
\* requests session `s`; the caller threads a cookie dict and an NF_WID through them.
EXTENDS Integers, Sequences, FiniteSets, TLC

\* ---------------------------------------------------------------- bounds

\* cookie dicts made during a run (each successful create_session makes one)
MaxObjs == 2
\* last reading of the wall clock, in half-milliseconds (time.time() * 1000 = now / 2)
MaxClock == 2
\* calls made by the scripted caller of SpecPipeline
MaxCalls == 5

\* ---------------------------------------------------------------- environment

\* the status the code compares every response against
HTTP_OK == 200

\* status codes the remote service answers with
Statuses == {HTTP_OK, 204, 404}

CookieNames == {"XSRF-TOKEN", "NFJSESSIONID"}

EmptyDict == [k \in {} |-> "a"]

\* the values the remote may give a cookie
CookieValues(name) == IF name = "XSRF-TOKEN" THEN {"a", "b"} ELSE {"a"}

\* every cookie dict over CookieNames: what r.cookies.get_dict() may return
Dicts ==
    UNION {{d \in [S -> {"a", "b"}] : \A k \in S : d[k] \in CookieValues(k)} : S \in SUBSET CookieNames}

\* the payload the code reads from a response: none unless the status is 200
Payloads(status, all) == IF status = HTTP_OK THEN all ELSE {EmptyDict}

BodyKeys == {"technicalData", "timelineData"}

\* parsed JSON bodies (r.json()): mappings with any subset of the two top-level keys
Bodies == UNION {[S -> {"payload"}] : S \in SUBSET BodyKeys}

\* the vehicle query the caller supplies
Query == [registrationNumber |-> "WA12345", VINNumber |-> "1HGCM82633A004352", firstRegistrationDate |-> "2020-01-01"]

EntryUrl == "https://moj.gov.pl/uslugi/engine/ng/index?xFormsAppName=HistoriaPojazdu"

CloseUrl == "https://moj.gov.pl/nforms/api/HistoriaPojazdu/1.0.17/close"

\* the entry URL pasted where the vehicle-data URL belongs
VehicleUrl_entry == "https://moj.gov.pl/uslugi/engine/ng/index?xFormsAppName=HistoriaPojazdu"

VehicleUrl == "https://moj.gov.pl/nforms/api/HistoriaPojazdu/1.0.17/data/vehicle-data"

TimelineUrl == "https://moj.gov.pl/nforms/api/HistoriaPojazdu/1.0.17/data/timeline-data"

\* ---------------------------------------------------------------- formatting

DigitChars == <<"0", "1", "2", "3", "4", "5", "6", "7", "8", "9">>

\* str(n) of a non-negative int, as the sequence of its decimal digits
RECURSIVE IntToStr(_)
IntToStr(n) ==
    IF n < 10 THEN <<DigitChars[n + 1]>>
    ELSE IntToStr(n \div 10) \o <<DigitChars[(n % 10) + 1]>>

\* f"{prefix}{n}": the literal text followed by the digits of n
FString(prefix, n) == <<prefix>> \o IntToStr(n)

\* ---------------------------------------------------------------- clock

\* the clock read in whole seconds: int(round(time.time()))
get_current_time_seconds(t) == t \div 2000

\* int(round(time.time() * 1000)) for a clock reading of t half-milliseconds:
\* Python's round() takes a tie to the even neighbour
get_current_time(t) ==
    LET q == t \div 2
    IN  IF t % 2 = 0 THEN q
        ELSE IF q % 2 = 0 THEN q ELSE q + 1

\* ---------------------------------------------------------------- results

NoHeaders == [k \in {} |-> <<>>]

NoExc == [type |-> "", args |-> <<>>]

Exc(type, args) == [type |-> type, args |-> args]

Returned(h, reqs, cookies, nfwid, data) ==
    [heap |-> h, requests |-> reqs, outcome |-> "return",
     ret_cookies |-> cookies, ret_nfwid |-> nfwid, ret_data |-> data, exc |-> NoExc]

Raised(h, reqs, exc) ==
    [heap |-> h, requests |-> reqs, outcome |-> "raise",
     ret_cookies |-> 0, ret_nfwid |-> <<>>, ret_data |-> EmptyDict, exc |-> exc]

\* a request as handed to s.get / s.post: data= is the form body, json= the JSON body
Request(method, url, headers, cookies, data, json) ==
    [method |-> method, url |-> url, headers |-> headers, cookies |-> cookies,
     data |-> data, json |-> json]

\* ---------------------------------------------------------------- operations
\* Each operation is the function of the same name: from the caller's heap of
\* cookie dicts h, its arguments and the remote's answer (status and payload) to
\* the heap after the call, the requests sent and the call's outcome.

\* the reference of a dict made now: one no dict has had before
NewRef(h) == IF DOMAIN h = {} THEN 1 ELSE (CHOOSE i \in DOMAIN h : \A j \in DOMAIN h : j <= i) + 1

\* h with a new dict d at reference ref
Alloc(h, ref, d) == [i \in (DOMAIN h) \cup {ref} |-> IF i = ref THEN d ELSE h[i]]

\* create_session taking every 2xx status for success
create_session_any2xx(h, status, response_cookies) ==
    LET r == Request("GET", EntryUrl, NoHeaders, EmptyDict, <<>>, EmptyDict)
    IN  IF status >= 200 /\ status < 300
        THEN Returned(Alloc(h, NewRef(h), response_cookies), <<r>>, NewRef(h), <<>>, EmptyDict)
        ELSE Raised(h, <<r>>,
                    Exc("Exception", FString("Failed to create session, status code: ", status)))

create_session(h, status, response_cookies) ==
    LET r == Request("GET", EntryUrl, NoHeaders, EmptyDict, <<>>, EmptyDict)
    IN  IF status = HTTP_OK
        THEN Returned(Alloc(h, NewRef(h), response_cookies), <<r>>, NewRef(h), <<>>, EmptyDict)
        ELSE Raised(h, <<r>>,
                    Exc("Exception", FString("Failed to create session, status code: ", status)))

\* the first loop written as cookies.setdefault(cookie, ...): the old value wins
StoreResponseCookies_keepOld(cookies, response_cookies) ==
    [k \in (DOMAIN cookies) \cup (DOMAIN response_cookies) |->
        IF k \in DOMAIN cookies THEN cookies[k] ELSE response_cookies[k]]

\* for cookie in response_cookies: cookies[cookie] = response_cookies[cookie]
StoreResponseCookies(cookies, response_cookies) ==
    [k \in (DOMAIN cookies) \cup (DOMAIN response_cookies) |->
        IF k \in DOMAIN response_cookies THEN response_cookies[k] ELSE cookies[k]]

\* for cookie_key in session.keys(): if cookie_key not in response_cookies:
\*     cookies[cookie_key] = session[cookie_key]      (cookies is session)
KeepAbsentCookies(cookies, session, response_cookies) ==
    [k \in DOMAIN cookies |->
        IF k \in DOMAIN session /\ k \notin DOMAIN response_cookies THEN session[k] ELSE cookies[k]]

AuthHeaders ==
    [k \in {"Accept-Language", "Content-Type"} |->
        IF k = "Accept-Language" THEN <<"pl-PL,pl;q=0.9">>
        ELSE <<"application/x-www-form-urlencoded">>]

\* authenticate_session merging into a copy, cookies = dict(session)
authenticate_session_copy(h, session, t, status, response_cookies) ==
    LET current_time == get_current_time(t)
        nfwid == FString("HistoriaPojazdu:", current_time)
        r == Request("POST", EntryUrl, AuthHeaders, h[session], <<"NF_WID=">> \o nfwid, EmptyDict)
        stored == StoreResponseCookies(h[session], response_cookies)
        merged == KeepAbsentCookies(stored, h[session], response_cookies)
    IN  IF status = HTTP_OK
        THEN Returned(Alloc(h, NewRef(h), merged), <<r>>, NewRef(h), nfwid, EmptyDict)
        ELSE Raised(h, <<r>>,
                    Exc("Exception", FString("Failed to authenticate session, status code: ", status)))

authenticate_session(h, session, t, status, response_cookies) ==
    LET current_time == get_current_time(t)
        nfwid == FString("HistoriaPojazdu:", current_time)
        r == Request("POST", EntryUrl, AuthHeaders, h[session], <<"NF_WID=">> \o nfwid, EmptyDict)
        stored == StoreResponseCookies(h[session], response_cookies)
        merged == KeepAbsentCookies(stored, stored, response_cookies)
    IN  IF status = HTTP_OK
        THEN Returned([h EXCEPT ![session] = merged], <<r>>, session, nfwid, EmptyDict)
        ELSE Raised(h, <<r>>,
                    Exc("Exception", FString("Failed to authenticate session, status code: ", status)))

CloseHeaders(nf_wid) ==
    [k \in {"Accept-Language", "Content-Type", "Nf_wid"} |->
        IF k = "Accept-Language" THEN <<"pl-PL,pl;q=0.9">>
        ELSE IF k = "Content-Type" THEN <<"application/json, text/plain, */*">>
        ELSE nf_wid]

\* close_session emptying the cookie dict once the remote session is released
close_session_clears(h, session, nf_wid, status) ==
    LET r == Request("GET", CloseUrl, CloseHeaders(nf_wid), h[session], <<>>, EmptyDict)
    IN  IF status = HTTP_OK
        THEN Returned([h EXCEPT ![session] = EmptyDict], <<r>>, 0, <<>>, EmptyDict)
        ELSE Raised(h, <<r>>,
                    Exc("Exception", FString("Failed to close session, status code: ", status)))

close_session(h, session, nf_wid, status) ==
    LET r == Request("GET", CloseUrl, CloseHeaders(nf_wid), h[session], <<>>, EmptyDict)
    IN  IF status = HTTP_OK
        THEN Returned(h, <<r>>, 0, <<>>, EmptyDict)
        ELSE Raised(h, <<r>>,
                    Exc("Exception", FString("Failed to close session, status code: ", status)))

\* the two header values written under each other's name
FetchHeaders_swapped(cookies, nf_wid) ==
    [k \in {"Accept-Language", "Content-Type", "X-Xsrf-Token", "Nf_wid"} |->
        IF k = "Accept-Language" THEN <<"pl-PL,pl;q=0.9">>
        ELSE IF k = "Content-Type" THEN <<"application/json">>
        ELSE IF k = "X-Xsrf-Token" THEN nf_wid
        ELSE <<cookies["XSRF-TOKEN"]>>]

\* the headers of both data fetchers; session["XSRF-TOKEN"] is read while they are built
FetchHeaders(cookies, nf_wid) ==
    [k \in {"Accept-Language", "Content-Type", "X-Xsrf-Token", "Nf_wid"} |->
        IF k = "Accept-Language" THEN <<"pl-PL,pl;q=0.9">>
        ELSE IF k = "Content-Type" THEN <<"application/json">>
        ELSE IF k = "X-Xsrf-Token" THEN <<cookies["XSRF-TOKEN"]>>
        ELSE nf_wid]

\* get_vehicle_data looking for the other endpoint's key
get_vehicle_data_wrongKey(h, session, nf_wid, query, status, response_data) ==
    IF "XSRF-TOKEN" \notin DOMAIN h[session]
    THEN Raised(h, <<>>, Exc("KeyError", <<"XSRF-TOKEN">>))
    ELSE LET r == Request("POST", VehicleUrl, FetchHeaders(h[session], nf_wid), h[session], <<>>, query)
         IN  IF status = HTTP_OK
             THEN IF "timelineData" \in DOMAIN response_data
                  THEN Returned(h, <<r>>, 0, <<>>, response_data)
                  ELSE Raised(h, <<r>>,
                              Exc("Exception", <<"Technical data not found in the response.">>))
             ELSE Raised(h, <<r>>,
                         Exc("Exception", FString("Failed to get vehicle data, status code: ", status)))

\* get_vehicle_data sending the request once more when the status is not 200
get_vehicle_data_retry(h, session, nf_wid, query, status, response_data) ==
    IF "XSRF-TOKEN" \notin DOMAIN h[session]
    THEN Raised(h, <<>>, Exc("KeyError", <<"XSRF-TOKEN">>))
    ELSE LET r == Request("POST", VehicleUrl, FetchHeaders(h[session], nf_wid), h[session], <<>>, query)
         IN  IF status = HTTP_OK
             THEN IF "technicalData" \in DOMAIN response_data
                  THEN Returned(h, <<r>>, 0, <<>>, response_data)
                  ELSE Raised(h, <<r>>,
                              Exc("Exception", <<"Technical data not found in the response.">>))
             ELSE Raised(h, <<r, r>>,
                         Exc("Exception", FString("Failed to get vehicle data, status code: ", status)))

get_vehicle_data(h, session, nf_wid, query, status, response_data) ==
    IF "XSRF-TOKEN" \notin DOMAIN h[session]
    THEN Raised(h, <<>>, Exc("KeyError", <<"XSRF-TOKEN">>))
    ELSE LET r == Request("POST", VehicleUrl, FetchHeaders(h[session], nf_wid), h[session], <<>>, query)
         IN  IF status = HTTP_OK
             THEN IF "technicalData" \in DOMAIN response_data
                  THEN Returned(h, <<r>>, 0, <<>>, response_data)
                  ELSE Raised(h, <<r>>,
                              Exc("Exception", <<"Technical data not found in the response.">>))
             ELSE Raised(h, <<r>>,
                         Exc("Exception", FString("Failed to get vehicle data, status code: ", status)))

\* get_timeline_data returning the body without looking for its key
get_timeline_data_noCheck(h, session, nf_wid, query, status, response_data) ==
    IF "XSRF-TOKEN" \notin DOMAIN h[session]
    THEN Raised(h, <<>>, Exc("KeyError", <<"XSRF-TOKEN">>))
    ELSE LET r == Request("POST", TimelineUrl, FetchHeaders(h[session], nf_wid), h[session], <<>>, query)
         IN  IF status = HTTP_OK
             THEN Returned(h, <<r>>, 0, <<>>, response_data)
             ELSE Raised(h, <<r>>,
                         Exc("Exception", FString("Failed to get timeline data, status code: ", status)))

get_timeline_data(h, session, nf_wid, query, status, response_data) ==
    IF "XSRF-TOKEN" \notin DOMAIN h[session]
    THEN Raised(h, <<>>, Exc("KeyError", <<"XSRF-TOKEN">>))
    ELSE LET r == Request("POST", TimelineUrl, FetchHeaders(h[session], nf_wid), h[session], <<>>, query)
         IN  IF status = HTTP_OK
             THEN IF "timelineData" \in DOMAIN response_data
                  THEN Returned(h, <<r>>, 0, <<>>, response_data)
                  ELSE Raised(h, <<r>>,
                              Exc("Exception", <<"Timeline data not found in the response.">>))
             ELSE Raised(h, <<r>>,
                         Exc("Exception", FString("Failed to get timeline data, status code: ", status)))

\* ---------------------------------------------------------------- the remote's view

\* the lifecycle step a request asks of the remote service, by method and URL
StepOf(r) ==
    IF r.method = "GET" /\ r.url = EntryUrl THEN "Initiated"
    ELSE IF r.method = "POST" /\ r.url = EntryUrl THEN "Authenticated"
    ELSE IF r.method = "POST" /\ r.url \in {VehicleUrl, TimelineUrl} THEN "Fetching"
    ELSE IF r.method = "GET" /\ r.url = CloseUrl THEN "Closed"
    ELSE "Unknown"

Rank(p) ==
    CASE p = "Uninitiated" -> 0
      [] p = "Initiated" -> 1
      [] p = "Authenticated" -> 2
      [] p = "Fetching" -> 3
      [] p = "Closed" -> 4
      [] OTHER -> 0

\* ---------------------------------------------------------------- state

VARIABLES
    heap,     \* the cookie dict the caller holds, by reference: reference -> dict
    phase,    \* per held dict: the lifecycle step the remote last answered 200 to
    nf_wid,   \* the NF_WID the caller holds (<<>> before authentication)
    now,      \* the wall clock, in half-milliseconds
    issued,   \* the clock reading and NF_WID of every successful authentication
    last,     \* the latest call: arguments, answer, requests sent, outcome
    pc,       \* the caller: "any" calls in any order, otherwise the pipeline's next step
    trace     \* the calls of the scripted caller, in order

vars == <<heap, phase, nf_wid, now, issued, last, pc, trace>>

EmptyHeap == [i \in {} |-> EmptyDict]

NoCall ==
    [op |-> "none", session |-> 0, nf_wid |-> <<>>, status |-> 0,
     resp |-> EmptyDict, pre |-> EmptyDict, prePhase |-> "Uninitiated", requests |-> <<>>,
     outcome |-> "none", ret_cookies |-> 0, ret_nfwid |-> <<>>, ret_data |-> EmptyDict,
     exc |-> NoExc]

Init ==
    /\ heap = EmptyHeap
    /\ phase = EmptyHeap
    /\ nf_wid = <<>>
    /\ now = 0
    /\ issued = {}
    /\ last = NoCall
    /\ pc = "any"
    /\ trace = <<>>

\* the scripted caller of the spec's pipeline: create, authenticate, fetch*, close
InitPipeline ==
    /\ heap = EmptyHeap
    /\ phase = EmptyHeap
    /\ nf_wid = <<>>
    /\ now = 0
    /\ issued = {}
    /\ last = NoCall
    /\ pc = "create"
    /\ trace = <<>>

\* where the scripted caller goes after a call: an exception ends the run, except
\* that a failed fetch is still followed by close_session
NextPc(op, outcome) ==
    IF pc = "any" THEN "any"
    ELSE IF op = "create_session" THEN (IF outcome = "return" THEN "authenticate" ELSE "done")
    ELSE IF op = "authenticate_session" THEN (IF outcome = "return" THEN "fetch" ELSE "done")
    ELSE IF op \in {"get_vehicle_data", "get_timeline_data"}
         THEN (IF outcome = "return" THEN "fetch" ELSE "close")
    ELSE "done"

CanCall(step) ==
    \/ pc = "any"
    \/ /\ pc = step
       /\ Len(trace) < MaxCalls

\* the effect of one call on the state: the heap as the operation left it, less
\* the dict the caller let go of by taking a returned one in its place; the remote's
\* lifecycle step for the session the request named; the caller's NF_WID
Commit(op, session, wid, status, resp, r) ==
    LET sent == r.requests # <<>>
        target == IF op = "create_session" THEN r.ret_cookies ELSE session
        held == IF r.ret_cookies # 0 THEN {r.ret_cookies} ELSE DOMAIN heap
        entry == [op |-> op, session |-> session, nf_wid |-> wid,
                  status |-> IF sent THEN status ELSE 0,
                  resp |-> IF sent THEN resp ELSE EmptyDict,
                  pre |-> IF session \in DOMAIN heap THEN heap[session] ELSE EmptyDict,
                  prePhase |-> IF session \in DOMAIN phase THEN phase[session] ELSE "Uninitiated",
                  requests |-> r.requests, outcome |-> r.outcome,
                  ret_cookies |-> r.ret_cookies, ret_nfwid |-> r.ret_nfwid,
                  ret_data |-> r.ret_data, exc |-> r.exc]
    IN  /\ heap' = [i \in held |-> r.heap[i]]
        /\ phase' = [i \in held |->
                        IF sent /\ status = HTTP_OK /\ i = target
                        THEN StepOf(r.requests[Len(r.requests)])
                        ELSE IF i \in DOMAIN phase THEN phase[i] ELSE "Uninitiated"]
        /\ nf_wid' = IF r.ret_nfwid # <<>> THEN r.ret_nfwid ELSE nf_wid
        /\ issued' = IF op = "authenticate_session" /\ r.outcome = "return"
                     THEN issued \cup {[clock |-> now, nfwid |-> r.ret_nfwid]}
                     ELSE issued
        /\ last' = entry
        /\ pc' = NextPc(op, r.outcome)
        /\ trace' = IF pc = "any" THEN trace ELSE Append(trace, entry)
        /\ UNCHANGED now

\* ---------------------------------------------------------------- actions

CreateSession ==
    /\ CanCall("create")
    /\ \E status \in Statuses : \E rc \in Payloads(status, Dicts) :
         /\ status = HTTP_OK => NewRef(heap) <= MaxObjs
         /\ Commit("create_session", 0, <<>>, status, rc, create_session(heap, status, rc))

AuthenticateSession ==
    /\ CanCall("authenticate")
    /\ \E session \in DOMAIN heap, status \in Statuses : \E rc \in Payloads(status, Dicts) :
         Commit("authenticate_session", session, <<>>, status, rc,
                authenticate_session(heap, session, now, status, rc))

GetVehicleData ==
    /\ CanCall("fetch")
    /\ nf_wid # <<>>
    /\ \E session \in DOMAIN heap, status \in Statuses : \E body \in Payloads(status, Bodies) :
         Commit("get_vehicle_data", session, nf_wid, status, body,
                get_vehicle_data(heap, session, nf_wid, Query, status, body))

GetTimelineData ==
    /\ CanCall("fetch")
    /\ nf_wid # <<>>
    /\ \E session \in DOMAIN heap, status \in Statuses : \E body \in Payloads(status, Bodies) :
         Commit("get_timeline_data", session, nf_wid, status, body,
                get_timeline_data(heap, session, nf_wid, Query, status, body))

CloseSession ==
    /\ CanCall("fetch") \/ CanCall("close")
    /\ nf_wid # <<>>
    /\ \E session \in DOMAIN heap, status \in Statuses :
         Commit("close_session", session, nf_wid, status, EmptyDict,
                close_session(heap, session, nf_wid, status))

\* time passes between calls
Tick ==
    /\ now < MaxClock
    /\ now' = now + 1
    /\ UNCHANGED <<heap, phase, nf_wid, issued, last, pc, trace>>

Next ==
    \/ CreateSession
    \/ AuthenticateSession
    \/ GetVehicleData
    \/ GetTimelineData
    \/ CloseSession
    \/ Tick

Spec == Init /\ [][Next]_vars

SpecPipeline == InitPipeline /\ [][Next]_vars

\* ---------------------------------------------------------------- properties

Fetchers == {"get_vehicle_data", "get_timeline_data"}

DigitValue(c) == CHOOSE d \in 0..9 : DigitChars[d + 1] = c

IsDigits(ds) == Len(ds) > 0 /\ \A i \in DOMAIN ds : \E d \in 0..9 : DigitChars[d + 1] = ds[i]

\* the number a sequence of decimal digits writes
RECURSIVE ParseInt(_)
ParseInt(ds) ==
    IF Len(ds) = 0 THEN 0
    ELSE 10 * ParseInt(SubSeq(ds, 1, Len(ds) - 1)) + DigitValue(ds[Len(ds)])

\* a call that got an answer from the remote, and the answer was not 200
AnsweredNotOk(c) == c.op # "none" /\ c.requests # <<>> /\ c.status # HTTP_OK

NoValue(c) == c.ret_cookies = 0 /\ c.ret_nfwid = <<>> /\ c.ret_data = EmptyDict

\* the message ends in the decimal digits of the status code
CarriesStatus(c) ==
    /\ Len(c.exc.args) >= 2
    /\ IsDigits(Tail(c.exc.args))
    /\ ParseInt(Tail(c.exc.args)) = c.status

ErrorKind(op) ==
    CASE op = "create_session" -> "SessionCreationError"
      [] op = "authenticate_session" -> "AuthenticationError"
      [] op = "close_session" -> "SessionClosureError"
      [] OTHER -> "FetchError"

FailureText(op) ==
    CASE op = "create_session" -> "Failed to create session, status code: "
      [] op = "authenticate_session" -> "Failed to authenticate session, status code: "
      [] op = "close_session" -> "Failed to close session, status code: "
      [] op = "get_vehicle_data" -> "Failed to get vehicle data, status code: "
      [] OTHER -> "Failed to get timeline data, status code: "

\* C1 as stated: on every status other than 200 the operation raises an error of
\* its own kind (SessionCreationError, AuthenticationError, FetchError, FetchError,
\* SessionClosureError) that carries the status code, and returns no value.
C1_StepSpecificErrorKind ==
    AnsweredNotOk(last) =>
        /\ last.outcome = "raise"
        /\ last.exc.type = ErrorKind(last.op)
        /\ CarriesStatus(last)
        /\ NoValue(last)

\* C1 as the code has it: on every status other than 200 the operation raises a
\* plain Exception, the same type in all five operations, whose message is the
\* operation's own text followed by the status code in decimal; no value is returned.
C1_NonOkRaisesException ==
    AnsweredNotOk(last) =>
        /\ last.outcome = "raise"
        /\ last.exc.type = "Exception"
        /\ Head(last.exc.args) = FailureText(last.op)
        /\ CarriesStatus(last)
        /\ NoValue(last)

C1_Witness ==
    /\ last.op = "create_session"
    /\ last.status = 204
    /\ last.outcome = "raise"
    /\ last.exc.args = <<"Failed to create session, status code: ", "2", "0", "4">>

\* C2: on HTTP 200 the cookie set authenticate_session returns is the right-biased
\* union of the input cookie set and the response cookies: exactly the names of
\* either, the response's value where it has the name, the input's value otherwise.
C2_RightBiasedUnion ==
    (last.op = "authenticate_session" /\ last.status = HTTP_OK) =>
        /\ last.outcome = "return"
        /\ last.ret_cookies \in DOMAIN heap
        /\ DOMAIN heap[last.ret_cookies] = (DOMAIN last.pre) \cup (DOMAIN last.resp)
        /\ \A k \in DOMAIN heap[last.ret_cookies] :
              heap[last.ret_cookies][k] = IF k \in DOMAIN last.resp THEN last.resp[k] ELSE last.pre[k]

\* an old cookie overwritten by a different new value, beside one the response left out
C2_Witness ==
    /\ last.op = "authenticate_session"
    /\ last.status = HTTP_OK
    /\ DOMAIN last.pre = {"XSRF-TOKEN", "NFJSESSIONID"}
    /\ DOMAIN last.resp = {"XSRF-TOKEN"}
    /\ last.pre["XSRF-TOKEN"] = "a"
    /\ last.resp["XSRF-TOKEN"] = "b"
    /\ last.ret_cookies \in DOMAIN heap
    /\ heap[last.ret_cookies]["XSRF-TOKEN"] = "b"
    /\ heap[last.ret_cookies]["NFJSESSIONID"] = "a"

ExpectedKey(op) == IF op = "get_vehicle_data" THEN "technicalData" ELSE "timelineData"

NotFoundText(op) ==
    IF op = "get_vehicle_data" THEN "Technical data not found in the response."
    ELSE "Timeline data not found in the response."

\* C3 as stated: on HTTP 200 a data fetcher returns the parsed body unchanged when
\* the expected key is present, and fails with a MissingFieldError naming the
\* missing key when it is absent.
C3_MissingFieldErrorNamesKey ==
    (last.op \in Fetchers /\ last.status = HTTP_OK) =>
        IF ExpectedKey(last.op) \in DOMAIN last.resp
        THEN last.outcome = "return" /\ last.ret_data = last.resp
        ELSE /\ last.outcome = "raise"
             /\ last.exc.type = "MissingFieldError"
             /\ \E i \in DOMAIN last.exc.args : last.exc.args[i] = ExpectedKey(last.op)

\* C3 as the code has it: on HTTP 200 a data fetcher returns the parsed body
\* unchanged when the expected key is present; when it is absent it raises a plain
\* Exception whose message is the endpoint's fixed sentence, which does not hold the
\* key's name, and returns no value.
C3_BodyOrNotFoundException ==
    (last.op \in Fetchers /\ last.status = HTTP_OK) =>
        IF ExpectedKey(last.op) \in DOMAIN last.resp
        THEN last.outcome = "return" /\ last.ret_data = last.resp
        ELSE /\ last.outcome = "raise"
             /\ last.exc = Exc("Exception", <<NotFoundText(last.op)>>)
             /\ NoValue(last)

C3_Witness ==
    /\ last.op = "get_timeline_data"
    /\ last.status = HTTP_OK
    /\ DOMAIN last.resp = {"technicalData"}
    /\ last.outcome = "raise"

\* the run create_session, authenticate_session, get_vehicle_data, close_session
HappyRun ==
    /\ Len(trace) >= 4
    /\ trace[1].op = "create_session"
    /\ trace[2].op = "authenticate_session"
    /\ trace[3].op = "get_vehicle_data"
    /\ trace[4].op = "close_session"

\* C4: in the run create_session, authenticate_session, get_vehicle_data,
\* close_session where every response has status 200, the merged cookie set holds
\* XSRF-TOKEN and the fetched body holds technicalData, no step raises, close_session
\* completes, and the value get_vehicle_data returned holds technicalData.
C4_HappyPathCompletes ==
    ( /\ HappyRun
      /\ \A i \in 1..4 : trace[i].status = HTTP_OK
      /\ "XSRF-TOKEN" \in DOMAIN trace[3].pre
      /\ "technicalData" \in DOMAIN trace[3].resp ) =>
        /\ \A i \in 1..4 : trace[i].outcome = "return"
        /\ "technicalData" \in DOMAIN trace[3].ret_data
        /\ pc = "done"

C4_Witness ==
    /\ HappyRun
    /\ \A i \in 1..4 : trace[i].status = HTTP_OK /\ trace[i].outcome = "return"
    /\ "technicalData" \in DOMAIN trace[3].ret_data
    /\ pc = "done"

\* the integer an NF_WID ends in
WidNumber(w) == ParseInt(Tail(w))

Called(i, ops) == last' # last /\ last'.session = i /\ last'.op \in ops /\ last'.requests # <<>>

\* C6 as stated: no operation takes a session back to an earlier lifecycle state,
\* and no data-fetch or authentication request is issued for a session after
\* close_session has succeeded for it.
C6_LifecycleOnlyForward ==
    [][\A i \in (DOMAIN phase) \cap (DOMAIN phase') :
          /\ Rank(phase'[i]) >= Rank(phase[i])
          /\ phase[i] = "Closed" => ~Called(i, Fetchers \cup {"authenticate_session"})]_vars

\* C6 as the code has it: the operations keep no lifecycle state and send their
\* request whenever they are called. A session moves back only by a call made out
\* of order: authenticate_session for a session already Fetching or Closed, or a
\* data fetch for a Closed session. Calls made in lifecycle order move it forward.
C6_BackOnlyOutOfOrder ==
    [][\A i \in (DOMAIN phase) \cap (DOMAIN phase') :
          Rank(phase'[i]) < Rank(phase[i]) =>
              \/ Called(i, {"authenticate_session"}) /\ phase[i] \in {"Fetching", "Closed"}
              \/ Called(i, Fetchers) /\ phase[i] = "Closed"]_vars

\* a data fetch answered 200 for a session whose close_session had succeeded
C6_Witness ==
    /\ last.op \in Fetchers
    /\ last.prePhase = "Closed"
    /\ last.status = HTTP_OK
    /\ last.session \in DOMAIN phase
    /\ phase[last.session] = "Fetching"

\* C7: every request of a data fetcher carries X-Xsrf-Token equal to the XSRF-TOKEN
\* entry of the cookie set passed in and Nf_wid equal to the session identifier
\* passed in; with the cookie set a successful authenticate_session returned, the
\* token is the authentication response's XSRF-TOKEN if it set one, and the one
\* obtained at session creation otherwise.
C7_FetchHeadersFromCookies ==
    \A i \in DOMAIN trace :
        trace[i].op \in Fetchers =>
            \A j \in DOMAIN trace[i].requests :
                LET hd == trace[i].requests[j].headers
                IN  /\ hd["X-Xsrf-Token"] = <<trace[i].pre["XSRF-TOKEN"]>>
                    /\ hd["Nf_wid"] = trace[i].nf_wid
                    /\ hd["Nf_wid"] = trace[2].ret_nfwid
                    /\ hd["X-Xsrf-Token"] =
                          IF "XSRF-TOKEN" \in DOMAIN trace[2].resp
                          THEN <<trace[2].resp["XSRF-TOKEN"]>>
                          ELSE <<trace[1].resp["XSRF-TOKEN"]>>

\* a fetch sending the token the authentication response put over the creation's
C7_Witness ==
    /\ Len(trace) >= 3
    /\ trace[3].op = "get_timeline_data"
    /\ Len(trace[3].requests) = 1
    /\ "XSRF-TOKEN" \in DOMAIN trace[1].resp
    /\ trace[1].resp["XSRF-TOKEN"] = "a"
    /\ "XSRF-TOKEN" \in DOMAIN trace[2].resp
    /\ trace[2].resp["XSRF-TOKEN"] = "b"
    /\ trace[3].requests[1].headers["X-Xsrf-Token"] = <<"b">>

UrlOf(op) ==
    CASE op = "create_session" -> EntryUrl
      [] op = "authenticate_session" -> EntryUrl
      [] op = "get_vehicle_data" -> VehicleUrl
      [] op = "get_timeline_data" -> TimelineUrl
      [] OTHER -> CloseUrl

\* C8: every call sends at most one HTTP request, to its own endpoint, and ends
\* with the first response: a failure is raised with no second request and no
\* request to the close endpoint.
C8_SingleShot ==
    /\ Len(last.requests) <= 1
    /\ \A i \in DOMAIN last.requests : last.requests[i].url = UrlOf(last.op)
    /\ AnsweredNotOk(last) => last.outcome = "raise"

C8_Witness ==
    /\ last.op = "get_vehicle_data"
    /\ last.status = 404
    /\ last.outcome = "raise"
    /\ Len(last.requests) = 1

\* C9: the only outcome that changes a cookie set the caller holds is a successful
\* (HTTP 200) authenticate_session on that cookie set; every other outcome of every
\* operation leaves it as it was.
C9_OnlyAuthSuccessChangesCookies ==
    [][\A i \in (DOMAIN heap) \cap (DOMAIN heap') :
          heap'[i] # heap[i] =>
              /\ last'.op = "authenticate_session"
              /\ last'.session = i
              /\ last'.status = HTTP_OK
              /\ last'.outcome = "return"]_vars

\* close_session answered 200 and the non-empty cookie set passed to it is as before
C9_Witness ==
    /\ last.op = "close_session"
    /\ last.status = HTTP_OK
    /\ last.session \in DOMAIN heap
    /\ last.pre # EmptyDict
    /\ heap[last.session] = last.pre

\* C10: a successful authenticate_session returns the very mapping it was passed,
\* updated in place: the caller's input mapping holds the merged cookies.
C10_MergedInPlace ==
    (last.op = "authenticate_session" /\ last.outcome = "return") =>
        /\ last.ret_cookies = last.session
        /\ last.session \in DOMAIN heap
        /\ heap[last.session] = [k \in (DOMAIN last.pre) \cup (DOMAIN last.resp) |->
                                    IF k \in DOMAIN last.resp THEN last.resp[k] ELSE last.pre[k]]

\* the mapping passed in no longer holds its contents of before the call
C10_Witness ==
    /\ last.op = "authenticate_session"
    /\ last.outcome = "return"
    /\ last.ret_cookies = last.session
    /\ last.session \in DOMAIN heap
    /\ heap[last.session] # last.pre

====
